---- MODULE Spec2Model ----
(***************************************************************************)
(* Model of compas_rhino/helpers/mesh.py.                                  *)
(*                                                                         *)
(* The parts of the module are modelled each under its own specification, *)
(* the variables of the other parts staying idle:                          *)
(*   SpecUpdate   mesh_update_attributes, mesh_update_vertex_attributes,   *)
(*                mesh_update_edge_attributes, mesh_update_face_attributes *)
(*                (summary of a selection, dialog, write back);            *)
(*   SpecSurface  mesh_from_surface (boundary loops to vertices + faces)   *)
(*                and mesh_from_guid;                                      *)
(*   SpecGrid     mesh_from_surface_heightfield;                           *)
(*   SpecLabels   mesh_display_vertex_labels / _edge_ / _face_;            *)
(*   SpecSelect   mesh_select_vertices, mesh_select_edges,                 *)
(*                mesh_select_faces.                                       *)
(***************************************************************************)
EXTENDS Integers, Sequences, FiniteSets, TLC

VARIABLES
    pc,        \* attribute update: "idle" before the call, "done" after it
    vertex,    \* mesh.vertex   : key -> name -> value
    edge,      \* mesh.edge     : key (a pair u, v) -> name -> value
    facedata,  \* mesh.facedata : key -> name -> value, or empty
    call,      \* what the last mesh_update_*_attributes call saw and did
    attributes,\* mesh.attributes : name -> value
    spc,       \* mesh_from_surface: position in the function
    gkey_xyz,  \* mesh_from_surface: the dict gkey -> point, in insertion order
    faces,     \* mesh_from_surface: the list of faces (lists of gkeys)
    read,      \* mesh_from_surface: what was read from the host, per loop
    mesh,      \* mesh_from_surface / mesh_from_guid: what is returned
    obj,       \* mesh_from_surface: the object found and what was done to it
    host_faces,\* mesh_from_guid: the faces the host gave for the guid
    hpc,       \* mesh_from_surface_heightfield: "start", then "done"
    grid,      \* mesh_from_surface_heightfield: density, samples and mesh
    lpc,       \* mesh_display_*_labels: "start", then "done"
    scene,     \* the label objects of the mesh in the host document
    display,   \* what the last mesh_display_*_labels call did
    qpc,       \* mesh_select_*: "start", then "done"
    select     \* what the last mesh_select_* call was given and returned

updateVars == <<pc, vertex, edge, facedata, call, attributes>>
surfaceVars == <<spc, gkey_xyz, faces, read, mesh, obj, host_faces>>
gridVars == <<hpc, grid>>
labelVars == <<lpc, scene, display>>
selectVars == <<qpc, select>>
vars == <<updateVars, surfaceVars, gridVars, labelVars, selectVars>>

----------------------------------------------------------------------------
(* Bounds of the model *)

NumKeys == 2       \* vertices / edges / faces of the mesh
NumNames == 2      \* attribute names of an element
MaxLoops == 2      \* boundary loops of a surface
MaxSegments == 3   \* segments of an exploded loop curve
MaxHostFaces == 2  \* faces of a host mesh
MaxDensity == 3    \* samples of a heightfield in one direction

Keys == 1..NumKeys
Names == 1..NumNames    \* attribute names, numbered in their sorted order

----------------------------------------------------------------------------
(* Python values: int, bool (an int subclass) and str *)

PyInt(i) == [t |-> "int", n |-> i, s |-> ""]
PyBool(b) == [t |-> "bool", n |-> IF b THEN 1 ELSE 0, s |-> ""]
PyStr(x) == [t |-> "str", n |-> 0, s |-> x]

\* the '-' written into the summary for a name whose values differ
MIXED == PyStr("-")

\* a != b of Python: numbers (bool included) compare by value, strings by
\* content, a number never equals a string
py_ne(a, b) ==
    IF a.t = "str" \/ b.t = "str"
    THEN ~(a.t = b.t /\ a.s = b.s)
    ELSE a.n # b.n

Digit == <<"0", "1", "2", "3", "4", "5", "6", "7", "8", "9">>
IntLiterals == 0..9

\* str(value)
py_str(v) ==
    CASE v.t = "int" -> Digit[v.n + 1]
      [] v.t = "bool" -> (IF v.n = 1 THEN "True" ELSE "False")
      [] OTHER -> v.s

\* strings that parse as a single Name node other than True / False
NameTokens == {"green", "red", "blue"}

\* ast.literal_eval(string): the value, or the exception it raises.
\* A decimal literal gives an int, True / False a bool; a bare name is a
\* malformed node (ValueError); anything else here ("-", "a b") does not
\* parse (SyntaxError).
literal_eval(x) ==
    IF \E i \in IntLiterals : Digit[i + 1] = x
    THEN [exc |-> "", val |-> PyInt(CHOOSE i \in IntLiterals : Digit[i + 1] = x)]
    ELSE IF x = "True" THEN [exc |-> "", val |-> PyBool(TRUE)]
    ELSE IF x = "False" THEN [exc |-> "", val |-> PyBool(FALSE)]
    ELSE IF x \in NameTokens THEN [exc |-> "ValueError", val |-> PyStr(x)]
    ELSE [exc |-> "SyntaxError", val |-> PyStr(x)]

----------------------------------------------------------------------------
(* Helpers on sequences *)

RECURSIVE Insert(_, _)
Insert(x, seq) ==
    IF seq = <<>> THEN <<x>>
    ELSE IF x <= Head(seq) THEN <<x>> \o seq
    ELSE <<Head(seq)>> \o Insert(x, Tail(seq))

\* sorted(names)
RECURSIVE sorted(_)
sorted(seq) ==
    IF seq = <<>> THEN <<>> ELSE Insert(Head(seq), sorted(Tail(seq)))

Range(seq) == {seq[i] : i \in 1..Len(seq)}

InjectiveSeqs(S, maxLen) ==
    UNION {{q \in [1..l -> S] : \A i, j \in 1..l : q[i] = q[j] => i = j} : l \in 1..maxLen}

----------------------------------------------------------------------------
(* mesh_update_vertex_attributes / _edge_ / _face_ : summary, dialog, apply *)

\* mesh.default_*_attributes.keys(): the names, in no particular order
default_keys == [i \in 1..NumNames |-> NumNames + 1 - i]

\* compare_rest with the loop started one element late (keys[2:])
RECURSIVE compare_rest_late(_, _, _, _)
compare_rest_late(store, value, rest, name) ==
    IF Len(rest) <= 1 THEN value
    ELSE IF py_ne(value, store[rest[2]][name]) THEN MIXED
    ELSE compare_rest_late(store, value, Tail(rest), name)

\* the comparison loop for one name: the first element's value, replaced by
\* '-' at the first other element whose value differs (break)
RECURSIVE compare_rest(_, _, _, _)
compare_rest(store, value, rest, name) ==
    IF rest = <<>> THEN value
    ELSE IF py_ne(value, store[Head(rest)][name]) THEN MIXED
    ELSE compare_rest(store, value, Tail(rest), name)

\* values = [store[keys[0]][name] for name in names], then the loop over
\* keys[1:] when len(keys) > 1
summary(store, keys, names) ==
    [i \in 1..Len(names) |->
        IF Len(keys) > 1
        THEN compare_rest(store, store[keys[1]][names[i]], Tail(keys), names[i])
        ELSE store[keys[1]][names[i]]]

\* values = map(str, values)
shown_values(values) == [i \in 1..Len(values) |-> py_str(values[i])]

\* what the user may type into a field of the dialog
DialogStrings == {"-", "7", "green", "a b"}

\* compas_rhino.update_named_values(names, values): the lists of strings the
\* dialog can return for the strings shown (each field is left as shown or
\* replaced); the empty list stands for a cancelled dialog (None)
Cancelled == <<>>
DialogReturns(shown) ==
    {q \in [1..Len(shown) -> DialogStrings \cup Range(shown)] :
        \A i \in 1..Len(shown) : q[i] \in DialogStrings \cup {shown[i]}}

\* for key in keys: store[key][name] = v
write_all(store, keys, name, v) ==
    [k \in DOMAIN store |->
        IF k \in Range(keys) THEN [store[k] EXCEPT ![name] = v] ELSE store[k]]

\* apply_from without the test "if value != '-'" and with every failure of
\* literal_eval caught
RECURSIVE apply_from_unguarded(_, _, _, _, _, _)
apply_from_unguarded(store, written, keys, names, values, i) ==
    IF i > Len(names) \/ i > Len(values)
    THEN [store |-> store, written |-> written, exc |-> ""]
    ELSE LET r == literal_eval(values[i])
             v == IF r.exc = "" THEN r.val ELSE PyStr(values[i])
         IN  apply_from_unguarded(write_all(store, keys, names[i], v),
                                  written \cup {<<k, names[i]>> : k \in Range(keys)},
                                  keys, names, values, i + 1)

\* for name, value in zip(names, values): if value != '-': for key in keys:
\*     try: store[key][name] = ast.literal_eval(value)
\*     except (TypeError, ValueError): store[key][name] = value
\* from the i-th name on. A SyntaxError of literal_eval is not caught: it
\* ends the loop, and the call, at the first key of that name.
RECURSIVE apply_from(_, _, _, _, _, _)
apply_from(store, written, keys, names, values, i) ==
    IF i > Len(names) \/ i > Len(values)
    THEN [store |-> store, written |-> written, exc |-> ""]
    ELSE IF values[i] = "-"
    THEN apply_from(store, written, keys, names, values, i + 1)
    ELSE LET r == literal_eval(values[i])
             v == IF r.exc = "" THEN r.val ELSE PyStr(values[i])
         IN  IF r.exc \notin {"", "TypeError", "ValueError"}
             THEN [store |-> store, written |-> written, exc |-> r.exc]
             ELSE apply_from(write_all(store, keys, names[i], v),
                             written \cup {<<k, names[i]>> : k \in Range(keys)},
                             keys, names, values, i + 1)

\* write_back returning True only when some attribute was assigned
write_back_if_written(store, keys, names, values) ==
    IF values # Cancelled
    THEN LET a == apply_from(store, {}, keys, names, values, 1)
         IN  [store |-> a.store, written |-> a.written,
              ret |-> IF a.exc # "" THEN a.exc
                      ELSE IF a.written # {} THEN "True" ELSE "False"]
    ELSE [store |-> store, written |-> {}, ret |-> "False"]

\* the part of the three functions after the dialog: "if values: ... return
\* True" and "return False"
write_back(store, keys, names, values) ==
    IF values # Cancelled
    THEN LET a == apply_from(store, {}, keys, names, values, 1)
         IN  [store |-> a.store, written |-> a.written,
              ret |-> IF a.exc = "" THEN "True" ELSE a.exc]
    ELSE [store |-> store, written |-> {}, ret |-> "False"]

\* the record kept of a call
CallRecord(fn, keys, names, values, returned, pre, w) ==
    [fn |-> fn, keys |-> keys, names |-> names, values |-> values,
     shown |-> shown_values(values), returned |-> returned, pre |-> pre,
     written |-> w.written, ret |-> w.ret]

NoCall ==
    [fn |-> "", keys |-> <<>>, names |-> <<>>, values |-> <<>>, shown |-> <<>>,
     returned |-> <<>>, pre |-> <<>>, written |-> {}, ret |-> ""]

\* arguments of the calls
KeySelections == InjectiveSeqs(Keys, NumKeys)
NamesArgs == {<<>>, default_keys, <<NumNames>>}

mesh_update_vertex_attributes(keys, namesArg) ==
    /\ pc = "idle"
    /\ LET names == sorted(IF namesArg = <<>> THEN default_keys ELSE namesArg)
           values == summary(vertex, keys, names)
       IN  \E returned \in {Cancelled} \cup DialogReturns(shown_values(values)) :
              LET w == write_back(vertex, keys, names, returned)
              IN  /\ vertex' = w.store
                  /\ call' = CallRecord("vertex", keys, names, values, returned, vertex, w)
    /\ pc' = "done"
    /\ UNCHANGED <<edge, facedata>>
    /\ UNCHANGED <<attributes, surfaceVars, gridVars, labelVars, selectVars>>

mesh_update_edge_attributes(keys, namesArg) ==
    /\ pc = "idle"
    /\ LET names == sorted(IF namesArg = <<>> THEN default_keys ELSE namesArg)
           values == summary(edge, keys, names)
       IN  \E returned \in {Cancelled} \cup DialogReturns(shown_values(values)) :
              LET w == write_back(edge, keys, names, returned)
              IN  /\ edge' = w.store
                  /\ call' = CallRecord("edge", keys, names, values, returned, edge, w)
    /\ pc' = "done"
    /\ UNCHANGED <<vertex, facedata>>
    /\ UNCHANGED <<attributes, surfaceVars, gridVars, labelVars, selectVars>>

\* "if not mesh.facedata: return" comes first; names are sorted only when
\* they default
mesh_update_face_attributes(fkeys, namesArg) ==
    /\ pc = "idle"
    /\ IF DOMAIN facedata = {}
       THEN /\ call' = [NoCall EXCEPT !.fn = "face", !.keys = fkeys, !.ret = "None"]
            /\ UNCHANGED facedata
       ELSE LET names == IF namesArg = <<>> THEN sorted(default_keys) ELSE namesArg
                values == summary(facedata, fkeys, names)
            IN  \E returned \in {Cancelled} \cup DialogReturns(shown_values(values)) :
                   LET w == write_back(facedata, fkeys, names, returned)
                   IN  /\ facedata' = w.store
                       /\ call' = CallRecord("face", fkeys, names, values, returned,
                                             facedata, w)
    /\ pc' = "done"
    /\ UNCHANGED <<vertex, edge>>
    /\ UNCHANGED <<attributes, surfaceVars, gridVars, labelVars, selectVars>>

\* for name, value in zip(names, values):
\*     try: mesh.attributes[name] = ast.literal_eval(value)
\*     except (TypeError, ValueError): mesh.attributes[name] = value
\* from the i-th name on; there is no test for '-' here. A SyntaxError of
\* literal_eval is not caught and ends the call.
RECURSIVE apply_mesh_from(_, _, _, _, _)
apply_mesh_from(attrs, written, names, values, i) ==
    IF i > Len(names) \/ i > Len(values)
    THEN [store |-> attrs, written |-> written, exc |-> ""]
    ELSE LET r == literal_eval(values[i])
             v == IF r.exc = "" THEN r.val ELSE PyStr(values[i])
         IN  IF r.exc \notin {"", "TypeError", "ValueError"}
             THEN [store |-> attrs, written |-> written, exc |-> r.exc]
             ELSE apply_mesh_from([attrs EXCEPT ![names[i]] = v],
                                  written \cup {<<0, names[i]>>}, names, values, i + 1)

\* the attributes of the mesh itself: "if values: ... return True" and
\* "return False". The call is recorded with no keys; the pairs written
\* have the key 0.
mesh_update_attributes ==
    /\ pc = "idle"
    /\ LET names == sorted([a \in 1..NumNames |-> a])
           values == [i \in 1..Len(names) |-> attributes[names[i]]]
       IN  \E returned \in {Cancelled} \cup DialogReturns(shown_values(values)) :
              LET a == IF returned # Cancelled
                       THEN apply_mesh_from(attributes, {}, names, returned, 1)
                       ELSE [store |-> attributes, written |-> {}, exc |-> ""]
                  w == [written |-> a.written,
                        ret |-> IF a.exc # "" THEN a.exc
                                ELSE IF returned # Cancelled THEN "True" ELSE "False"]
              IN  /\ attributes' = a.store
                  /\ call' = CallRecord("mesh", <<>>, names, values, returned,
                                        <<attributes>>, w)
    /\ pc' = "done_mesh"
    /\ UNCHANGED <<vertex, edge, facedata>>
    /\ UNCHANGED <<surfaceVars, gridVars, labelVars, selectVars>>

\* the value of mesh_from_surface: nothing yet, None, or the mesh made of
\* the vertices and faces handed to cls.from_vertices_and_faces
NotReturned == [kind |-> "", vertices |-> <<>>, faces |-> <<>>]
ReturnedNone == [kind |-> "None", vertices |-> <<>>, faces |-> <<>>]

\* attribute values a mesh holds before the call
InitValues == {PyInt(1), PyBool(TRUE), PyStr("1"), PyStr("-")}

\* obj before sc.doc.Objects.Find(guid)
NotFound == [found |-> FALSE, HasBrepForm |-> FALSE, converted |-> FALSE]

SurfaceIdle ==
    /\ spc = "idle"
    /\ gkey_xyz = <<>>
    /\ faces = <<>>
    /\ read = <<>>
    /\ mesh = NotReturned
    /\ obj = NotFound
    /\ host_faces = <<>>

GridIdle ==
    /\ hpc = "idle"
    /\ grid = <<>>

LabelsIdle ==
    /\ lpc = "idle"
    /\ scene = {}
    /\ display = <<>>

SelectIdle ==
    /\ qpc = "idle"
    /\ select = <<>>

InitUpdate ==
    /\ pc = "idle"
    /\ \E c \in [Keys -> [Names -> InitValues]] :
          /\ vertex = c
          /\ edge = c
          /\ facedata \in {c, <<>>}
          /\ attributes = c[1]
    /\ call = NoCall
    /\ SurfaceIdle
    /\ GridIdle
    /\ LabelsIdle
    /\ SelectIdle

NextUpdate ==
    \/ \E keys \in KeySelections, namesArg \in NamesArgs :
          mesh_update_vertex_attributes(keys, namesArg)
    \/ \E keys \in KeySelections, namesArg \in NamesArgs :
          mesh_update_edge_attributes(keys, namesArg)
    \/ \E fkeys \in KeySelections, namesArg \in NamesArgs :
          mesh_update_face_attributes(fkeys, namesArg)
    \/ mesh_update_attributes

SpecUpdate == InitUpdate /\ [][NextUpdate]_vars

\* the store a call worked on, after the call
StoreOf(fn) ==
    CASE fn = "vertex" -> vertex
      [] fn = "edge" -> edge
      [] OTHER -> facedata

----------------------------------------------------------------------------
(* mesh_from_surface *)

\* Points of the host, coordinates counted in halves of the precision of
\* the geometric key: <<1, 0, 0>> and <<2, 0, 0>> differ and share a key.
Points == {<<0, 0, 0>>, <<1, 0, 0>>, <<2, 0, 0>>, <<0, 2, 0>>}

\* a coordinate rounded (half up) to the precision of the key
round_coordinate(c) == (c + 1) \div 2

\* geometric_key(xyz)
geometric_key(xyz) ==
    <<round_coordinate(xyz[1]), round_coordinate(xyz[2]), round_coordinate(xyz[3])>>

\* the segments curve.Explode() can return for a loop
Segments == [PointAtStart : Points, PointAtEnd : Points]
ExplodedCurves == UNION {[1..n -> Segments] : n \in 1..MaxSegments}

\* d[k] = v on a list always appended to: a key assigned again is listed again
dict_set_append(d, k, v) == Append(d, [gkey |-> k, xyz |-> v])

\* d[k] = v that keeps the value a key already has (d.setdefault(k, v))
dict_set_keep_first(d, k, v) ==
    IF \E i \in 1..Len(d) : d[i].gkey = k
    THEN d
    ELSE Append(d, [gkey |-> k, xyz |-> v])

\* d[k] = v that moves a key assigned again to the end (del d[k]; d[k] = v)
dict_set_move_to_end(d, k, v) ==
    Append(SelectSeq(d, LAMBDA e : e.gkey # k), [gkey |-> k, xyz |-> v])

\* d[k] = v on a dict: a new key is appended to the insertion order, a key
\* already present keeps its place and gets the new value (a dict that keeps
\* insertion order, as Python 3.7 and later define it)
dict_set(d, k, v) ==
    IF \E i \in 1..Len(d) : d[i].gkey = k
    THEN [i \in 1..Len(d) |-> IF d[i].gkey = k THEN [gkey |-> k, xyz |-> v] ELSE d[i]]
    ELSE Append(d, [gkey |-> k, xyz |-> v])

\* segments[1:] in the place of segments[1:-1]
middle_segments_to_end(segments) == SubSeq(segments, 2, Len(segments))

\* segments[1:-1]
middle_segments(segments) == SubSeq(segments, 2, Len(segments) - 1)

\* the points the loop body reads, in the order it reads them: start and
\* end of segments[0], then the end of each of segments[1:-1]
points_read(segments) ==
    <<segments[1].PointAtStart, segments[1].PointAtEnd>>
        \o [i \in 1..Len(middle_segments(segments)) |->
                middle_segments(segments)[i].PointAtEnd]

\* gkey_xyz[gkey] = point for each point read, in order
RECURSIVE store_points(_, _)
store_points(d, pts) ==
    IF pts = <<>> THEN d
    ELSE store_points(dict_set(d, geometric_key(Head(pts)), Head(pts)), Tail(pts))

\* each segment ends where the next one starts (a property of the segments
\* read, which the loop body does not test)
Contiguous(segments) ==
    \A i \in 1..(Len(segments) - 1) :
        segments[i].PointAtEnd = segments[i + 1].PointAtStart

\* gkey_index = {gkey: index for index, gkey in enumerate(gkey_xyz)}
gkey_index(d, gkey) == (CHOOSE i \in 1..Len(d) : d[i].gkey = gkey) - 1

\* find_object without the test of HasBrepForm: the geometry is converted
\* and the loops are read whatever the object is
find_object_no_check(HasBrepForm) ==
    /\ spc = "start"
    /\ spc' = "loops"
    /\ mesh' = mesh
    /\ obj' = [found |-> TRUE, HasBrepForm |-> HasBrepForm, converted |-> TRUE]
    /\ UNCHANGED <<gkey_xyz, faces, read, host_faces>>
    /\ UNCHANGED <<updateVars, gridVars, labelVars, selectVars>>

\* obj = sc.doc.Objects.Find(guid); if not obj.Geometry.HasBrepForm: return
\* on an object with a brep form, line 75 converts it:
\* brep = Rhino.Geometry.Brep.TryConvertBrep(obj.Geometry)
find_object(HasBrepForm) ==
    /\ spc = "start"
    /\ IF HasBrepForm
       THEN spc' = "loops" /\ mesh' = mesh
       ELSE spc' = "done" /\ mesh' = ReturnedNone
    /\ obj' = [found |-> TRUE, HasBrepForm |-> HasBrepForm, converted |-> HasBrepForm]
    /\ UNCHANGED <<gkey_xyz, faces, read, host_faces>>
    /\ UNCHANGED <<updateVars, gridVars, labelVars, selectVars>>

\* one pass of "for loop in brep.Loops": the face of the loop whose curve
\* explodes into the given segments
loop_body(segments) ==
    /\ spc = "loops"
    /\ Len(faces) < MaxLoops
    /\ gkey_xyz' = store_points(gkey_xyz, points_read(segments))
    /\ faces' = Append(faces, [i \in 1..Len(points_read(segments)) |->
                                  geometric_key(points_read(segments)[i])])
    /\ read' = Append(read, [n |-> Len(segments),
                             points |-> points_read(segments),
                             contiguous |-> Contiguous(segments)])
    /\ UNCHANGED <<spc, mesh, obj, host_faces>>
    /\ UNCHANGED <<updateVars, gridVars, labelVars, selectVars>>

\* after the last loop: vertices and faces handed to
\* cls.from_vertices_and_faces, the mesh returned
build_mesh ==
    /\ spc = "loops"
    /\ mesh' = [kind |-> "mesh",
                vertices |-> [i \in 1..Len(gkey_xyz) |-> gkey_xyz[i].xyz],
                faces |-> [f \in 1..Len(faces) |->
                              [j \in 1..Len(faces[f]) |->
                                  gkey_index(gkey_xyz, faces[f][j])]]]
    /\ spc' = "done"
    /\ UNCHANGED <<gkey_xyz, faces, read, obj, host_faces>>
    /\ UNCHANGED <<updateVars, gridVars, labelVars, selectVars>>

\* the faces compas_rhino.get_mesh_vertices_and_faces(guid) gives: four
\* vertex indices each, the last two equal for a triangle
HostFaces ==
    {f \in [1..4 -> 0..3] :
        /\ Cardinality({f[1], f[2], f[3]}) = 3
        /\ f[4] = f[3] \/ f[4] \notin {f[1], f[2], f[3]}}

\* the vertices the host gives with them
HostVertices == <<<<0, 0, 0>>, <<2, 0, 0>>, <<2, 2, 0>>, <<0, 2, 0>>>>

\* face[:-1] if face[-2] == face[-1] else face
trim_face(face) ==
    IF face[Len(face) - 1] = face[Len(face)]
    THEN SubSeq(face, 1, Len(face) - 1)
    ELSE face

\* mesh_from_guid: the faces handed to cls.from_vertices_and_faces
mesh_from_guid(hfaces) ==
    /\ spc = "start"
    /\ host_faces' = hfaces
    /\ mesh' = [kind |-> "from_guid",
                vertices |-> HostVertices,
                faces |-> [f \in 1..Len(hfaces) |-> trim_face(hfaces[f])]]
    /\ spc' = "done"
    /\ UNCHANGED <<gkey_xyz, faces, read, obj>>
    /\ UNCHANGED <<updateVars, gridVars, labelVars, selectVars>>

UpdateIdle ==
    /\ pc = "idle"
    /\ vertex = [k \in Keys |-> [a \in Names |-> PyInt(1)]]
    /\ edge = [k \in Keys |-> [a \in Names |-> PyInt(1)]]
    /\ facedata = <<>>
    /\ call = NoCall
    /\ attributes = [a \in Names |-> PyInt(1)]

InitSurface ==
    /\ spc = "start"
    /\ gkey_xyz = <<>>
    /\ faces = <<>>
    /\ read = <<>>
    /\ mesh = NotReturned
    /\ obj = NotFound
    /\ host_faces = <<>>
    /\ UpdateIdle
    /\ GridIdle
    /\ LabelsIdle
    /\ SelectIdle

NextSurface ==
    \/ \E HasBrepForm \in BOOLEAN : find_object(HasBrepForm)
    \/ \E segments \in ExplodedCurves : loop_body(segments)
    \/ build_mesh
    \/ \E hfaces \in UNION {[1..n -> HostFaces] : n \in 1..MaxHostFaces} :
          mesh_from_guid(hfaces)

SpecSurface == InitSurface /\ [][NextSurface]_vars

----------------------------------------------------------------------------
(* mesh_from_surface_heightfield *)

\* the density argument: a pair (u, v), or one number for both directions
Densities ==
    [pair : {TRUE}, u : -1..MaxDensity, v : -1..MaxDensity]
        \cup [pair : {FALSE}, u : -1..MaxDensity, v : {0}]

\* try: u, v = density   except Exception: u, v = density, density
unpack_density(density) ==
    IF density.pair
    THEN [u |-> density.u, v |-> density.v]
    ELSE [u |-> density.u, v |-> density.u]

\* surface.heightfield(density=(u, v), over_space=True): u * v points, row by
\* row, none when a direction has no sample. The point of row i and column
\* j is <<i, j, z>> with the height z the surface has there.
heightfield(u, v) ==
    LET n == IF u < 1 \/ v < 1 THEN 0 ELSE u * v
    IN  {[k \in 1..n |-> <<(k - 1) \div v, (k - 1) % v, z[k]>>] : z \in [1..n -> {0, 1}]}

\* the face of row i and column j with the rows counted in u
face_stride_u(i, j, u, v) ==
    <<(i + 0) * u + j, (i + 0) * u + j + 1, (i + 1) * u + j + 1, (i + 1) * u + j>>

\* face = ((i + 0) * v + j, (i + 0) * v + j + 1,
\*         (i + 1) * v + j + 1, (i + 1) * v + j)
face(i, j, u, v) ==
    <<(i + 0) * v + j, (i + 0) * v + j + 1, (i + 1) * v + j + 1, (i + 1) * v + j>>

\* for j in range(v): one column too many
RECURSIVE for_j_to_v(_, _, _, _, _)
for_j_to_v(i, j, u, v, added) ==
    IF j >= v THEN added
    ELSE for_j_to_v(i, j + 1, u, v, Append(added, face(i, j, u, v)))

\* for j in range(v - 1): mesh.add_face(face), from column j on
RECURSIVE for_j(_, _, _, _, _)
for_j(i, j, u, v, added) ==
    IF j >= v - 1 THEN added
    ELSE for_j(i, j + 1, u, v, Append(added, face(i, j, u, v)))

\* for i in range(u): one row too many
RECURSIVE for_i_to_u(_, _, _, _)
for_i_to_u(i, u, v, added) ==
    IF i >= u THEN added
    ELSE for_i_to_u(i + 1, u, v, for_j(i, 0, u, v, added))

\* for i in range(u - 1): for j in range(v - 1): ..., from row i on
RECURSIVE for_i(_, _, _, _)
for_i(i, u, v, added) ==
    IF i >= u - 1 THEN added
    ELSE for_i(i + 1, u, v, for_j(i, 0, u, v, added))

\* the whole function: grid records the arguments, the samples read, and the
\* mesh.add_vertex and mesh.add_face calls in the order they are made
mesh_from_surface_heightfield(density) ==
    /\ hpc = "start"
    /\ LET d == unpack_density(density)
       IN  \E vertices \in heightfield(d.u, d.v) :
              grid' = [density |-> density, u |-> d.u, v |-> d.v,
                       samples |-> vertices,
                       add_vertex |-> [k \in 1..Len(vertices) |->
                                         <<vertices[k][1], vertices[k][2], vertices[k][3]>>],
                       add_face |-> for_i(0, d.u, d.v, <<>>)]
    /\ hpc' = "done"
    /\ UNCHANGED <<updateVars, surfaceVars, labelVars, selectVars>>

InitGrid ==
    /\ hpc = "start"
    /\ grid = <<>>
    /\ UpdateIdle
    /\ SurfaceIdle
    /\ LabelsIdle
    /\ SelectIdle

NextGrid == \E density \in Densities : mesh_from_surface_heightfield(density)

SpecGrid == InitGrid /\ [][NextGrid]_vars

----------------------------------------------------------------------------
(* mesh_display_vertex_labels, mesh_display_edge_labels,
   mesh_display_face_labels *)

\* The scene is a set of objects [name, text]; a name is [prefix, suffix],
\* for the name "<prefix>.<suffix>", e.g. "mesh.vertex.label.1".
ObjectName(prefix, suffix) == [prefix |-> prefix, suffix |-> suffix]

\* mesh.vertices(), mesh.edges() and mesh.faces(), in the order of iteration:
\* the edges join each vertex to the next one
mesh_vertices == [i \in 1..NumKeys |-> i]

mesh_edges == [i \in 1..(NumKeys - 1) |-> <<i, i + 1>>]

mesh_faces == [i \in 1..NumKeys |-> i]

EdgeKeys == Range(mesh_edges)

\* '{0}-{1}'.format(u, v)
edge_name(uv) == Digit[uv[1] + 1] \o "-" \o Digit[uv[2] + 1]

\* the formatter argument: None, a function, and the numbers 5 and 0
None == [kind |-> "None", truthy |-> FALSE, callable |-> FALSE]

str == [kind |-> "str", truthy |-> TRUE, callable |-> TRUE]

Formatters ==
    {None,
     [kind |-> "function", truthy |-> TRUE, callable |-> TRUE],
     [kind |-> "5", truthy |-> TRUE, callable |-> FALSE],
     [kind |-> "0", truthy |-> FALSE, callable |-> FALSE]}

\* the attr_name argument
AttrNames == {"", "key", "index"}

\* compas_rhino.get_objects(name="<prefix>.*"): the objects of that name
get_objects(prefix) == {o \in scene : o.name.prefix = prefix}

\* compas_rhino.delete_objects(guids)
delete_objects(guids) == scene \ guids

\* compas_rhino.xdraw_labels(labels, clear=False): one object per label,
\* after the objects of the scene
xdraw_labels(objects, labels) ==
    objects \cup {[name |-> labels[i].name, text |-> labels[i].text] : i \in 1..Len(labels)}

\* if formatter: if not callable(formatter): raise Exception(...)
\* else: formatter = str
check_formatter(formatter) ==
    IF formatter.truthy
    THEN IF ~formatter.callable
         THEN [exc |-> "Exception", formatter |-> formatter]
         ELSE [exc |-> "", formatter |-> formatter]
    ELSE [exc |-> "", formatter |-> str]

\* formatter(value): str, or a function that puts "v" before str(value)
format(formatter, value) ==
    IF formatter = str THEN py_str(value) ELSE "v" \o py_str(value)

\* if not attr_name: attr_name = 'key'
default_attr_name(attr_name) == IF attr_name = "" THEN "key" ELSE attr_name

\* the record of a call: arguments, the scene on entry, the exception raised
\* and the xdraw_labels calls made
DisplayRecord(fn, formatter, attr_name, raised, xdraw) ==
    [fn |-> fn, formatter |-> formatter, attr_name |-> attr_name,
     entry |-> scene, raised |-> raised, xdraw |-> xdraw]

\* the labels of the elements keys[1], keys[2], ...: values[i] is the value
\* of the 'key' of element i, its index is i - 1
labels_of(prefix, names, values, attr_name, formatter) ==
    [i \in 1..Len(names) |->
        [text |-> format(formatter, IF attr_name = "key" THEN values[i] ELSE PyInt(i - 1)),
         name |-> ObjectName(prefix, names[i])]]

\* the body common to the three functions, in the order of the code: the old
\* labels are deleted, then the formatter is tested, then the labels are
\* drawn; the result is the scene and the record of the call
display_labels(fn, prefix, names, values, attr_name, formatter) ==
    LET cleared == delete_objects(get_objects(prefix))
        checked == check_formatter(formatter)
        labels == labels_of(prefix, names, values, default_attr_name(attr_name),
                            checked.formatter)
    IN  IF checked.exc # ""
        THEN [scene |-> cleared,
              display |-> DisplayRecord(fn, formatter, attr_name, checked.exc, <<>>)]
        ELSE [scene |-> xdraw_labels(cleared, labels),
              display |-> DisplayRecord(fn, formatter, attr_name, "", <<labels>>)]

mesh_display_vertex_labels(attr_name, formatter) ==
    /\ lpc = "start"
    /\ LET keys == mesh_vertices
           done == display_labels("vertex", "mesh.vertex.label",
                                  [i \in 1..Len(keys) |-> Digit[keys[i] + 1]],
                                  [i \in 1..Len(keys) |-> PyInt(keys[i])],
                                  attr_name, formatter)
       IN  scene' = done.scene /\ display' = done.display
    /\ lpc' = "done"
    /\ UNCHANGED <<updateVars, surfaceVars, gridVars, selectVars>>

mesh_display_edge_labels(attr_name, formatter) ==
    /\ lpc = "start"
    /\ LET uvs == mesh_edges
           done == display_labels("edge", "mesh.edge.label",
                                  [i \in 1..Len(uvs) |-> edge_name(uvs[i])],
                                  [i \in 1..Len(uvs) |-> PyStr(edge_name(uvs[i]))],
                                  attr_name, formatter)
       IN  scene' = done.scene /\ display' = done.display
    /\ lpc' = "done"
    /\ UNCHANGED <<updateVars, surfaceVars, gridVars, selectVars>>

mesh_display_face_labels(attr_name, formatter) ==
    /\ lpc = "start"
    /\ LET fkeys == mesh_faces
           done == display_labels("face", "mesh.face.label",
                                  [i \in 1..Len(fkeys) |-> Digit[fkeys[i] + 1]],
                                  [i \in 1..Len(fkeys) |-> PyInt(fkeys[i])],
                                  attr_name, formatter)
       IN  scene' = done.scene /\ display' = done.display
    /\ lpc' = "done"
    /\ UNCHANGED <<updateVars, surfaceVars, gridVars, selectVars>>

\* the objects a scene may hold on entry: labels of an earlier call and the
\* vertices drawn by mesh_draw_vertices
OldObjects ==
    {[name |-> ObjectName("mesh.vertex.label", Digit[k + 1]), text |-> "old"] : k \in Keys}
        \cup {[name |-> ObjectName("mesh.edge.label", edge_name(uv)), text |-> "old"] : uv \in EdgeKeys}
        \cup {[name |-> ObjectName("mesh.face.label", Digit[k + 1]), text |-> "old"] : k \in Keys}
        \cup {[name |-> ObjectName("mesh.vertex", Digit[k + 1]), text |-> ""] : k \in Keys}

InitLabels ==
    /\ lpc = "start"
    /\ scene \in SUBSET OldObjects
    /\ display = <<>>
    /\ UpdateIdle
    /\ SurfaceIdle
    /\ GridIdle
    /\ SelectIdle

NextLabels ==
    \/ \E attr_name \in AttrNames, formatter \in Formatters :
          mesh_display_vertex_labels(attr_name, formatter)
    \/ \E attr_name \in AttrNames, formatter \in Formatters :
          mesh_display_edge_labels(attr_name, formatter)
    \/ \E attr_name \in AttrNames, formatter \in Formatters :
          mesh_display_face_labels(attr_name, formatter)

SpecLabels == InitLabels /\ [][NextLabels]_vars

----------------------------------------------------------------------------
(* mesh_select_vertices, mesh_select_edges, mesh_select_faces *)

MaxSelected == 3   \* objects selected in one call

\* The objects of the document: guid, type, and the name already split at
\* the dots, rs.ObjectName(guid).split('.'). Points and curves are drawn by
\* mesh_draw, text dots by mesh_display_*_labels; "other" is a second mesh.
SceneObjects ==
    {[guid |-> 1, type |-> "point", name |-> <<"mesh", "vertex", "1">>],
     [guid |-> 2, type |-> "point", name |-> <<"mesh", "vertex", "2">>],
     [guid |-> 3, type |-> "textdot", name |-> <<"mesh", "vertex", "label", "1">>],
     [guid |-> 4, type |-> "textdot", name |-> <<"other", "vertex", "label", "1">>],
     [guid |-> 5, type |-> "curve", name |-> <<"mesh", "edge", "1-2">>],
     [guid |-> 6, type |-> "textdot", name |-> <<"mesh", "edge", "label", "1-2">>],
     [guid |-> 7, type |-> "textdot", name |-> <<"mesh", "face", "label", "1">>],
     [guid |-> 8, type |-> "textdot", name |-> <<"mesh", "face", "label", "2">>],
     [guid |-> 9, type |-> "textdot", name |-> <<"other", "face", "label", "1">>]}

\* rs.GetObjects(message, preselect=True, filter=...): the lists of objects
\* of the types of the filter the user can select; the empty list stands
\* for None
GetObjects(filter) ==
    {<<>>} \cup InjectiveSeqs({o \in SceneObjects : o.type \in filter}, MaxSelected)

\* mesh.attributes['name']
Prefixes == {"mesh", ""}

\* seen.add(key): the set with the key, and the value of the call, which
\* is None for every key
set_add(seen, key) == [seen |-> seen \cup {key}, ret |-> "None"]

\* key.split('-')
split(key) ==
    IF \E a, b \in Range(Digit) : key = a \o "-" \o b
    THEN CHOOSE uv \in Range(Digit) \X Range(Digit) : key = uv[1] \o "-" \o uv[2]
    ELSE <<key>>

\* key = ast.literal_eval(key) for a vertex or a face;
\* u, v = key.split('-'), u = ast.literal_eval(u), v = ast.literal_eval(v)
\* and the key (u, v) for an edge
parse_key(kind, key) ==
    IF kind = "edge"
    THEN LET parts == split(key)
         IN  IF Len(parts) # 2 THEN [exc |-> "ValueError", val |-> <<>>]
             ELSE LET u == literal_eval(parts[1])
                      v == literal_eval(parts[2])
                  IN  IF u.exc # "" THEN [exc |-> u.exc, val |-> <<>>]
                      ELSE IF v.exc # "" THEN [exc |-> v.exc, val |-> <<>>]
                      ELSE [exc |-> "", val |-> <<u.val, v.val>>]
    ELSE literal_eval(key)

\* for guid in guids: name = rs.ObjectName(guid).split('.')
\*     if kind in name: if not prefix or prefix in name:
\*         key = name[-1]
\*         if not seen.add(key): key = <parsed key>; keys.append(key)
\* from the i-th guid on
RECURSIVE select_from(_, _, _, _, _, _)
select_from(kind, prefix, guids, i, seen, keys) ==
    IF i > Len(guids)
    THEN [keys |-> keys, seen |-> seen, exc |-> ""]
    ELSE LET name == guids[i].name
         IN  IF kind \in Range(name) /\ (prefix = "" \/ prefix \in Range(name))
             THEN LET key == name[Len(name)]
                      added == set_add(seen, key)
                  IN  IF added.ret \in {"None", "False"}
                      THEN LET parsed == parse_key(kind, key)
                           IN  IF parsed.exc # ""
                               THEN [keys |-> keys, seen |-> added.seen, exc |-> parsed.exc]
                               ELSE select_from(kind, prefix, guids, i + 1, added.seen,
                                                Append(keys, parsed.val))
                      ELSE select_from(kind, prefix, guids, i + 1, added.seen, keys)
             ELSE select_from(kind, prefix, guids, i + 1, seen, keys)

\* the record of a call: the arguments and what "return keys" gives
SelectRecord(fn, kind, prefix, guids) ==
    LET done == IF guids # <<>>
                THEN select_from(kind, prefix, guids, 1, {}, <<>>)
                ELSE [keys |-> <<>>, seen |-> {}, exc |-> ""]
    IN  [fn |-> fn, kind |-> kind, prefix |-> prefix, guids |-> guids,
         keys |-> done.keys, seen |-> done.seen, exc |-> done.exc]

mesh_select_vertices(prefix, guids) ==
    /\ qpc = "start"
    /\ select' = SelectRecord("mesh_select_vertices", "vertex", prefix, guids)
    /\ qpc' = "done"
    /\ UNCHANGED <<updateVars, surfaceVars, gridVars, labelVars>>

mesh_select_edges(prefix, guids) ==
    /\ qpc = "start"
    /\ select' = SelectRecord("mesh_select_edges", "edge", prefix, guids)
    /\ qpc' = "done"
    /\ UNCHANGED <<updateVars, surfaceVars, gridVars, labelVars>>

mesh_select_faces(prefix, guids) ==
    /\ qpc = "start"
    /\ select' = SelectRecord("mesh_select_faces", "face", prefix, guids)
    /\ qpc' = "done"
    /\ UNCHANGED <<updateVars, surfaceVars, gridVars, labelVars>>

InitSelect ==
    /\ qpc = "start"
    /\ select = <<>>
    /\ UpdateIdle
    /\ SurfaceIdle
    /\ GridIdle
    /\ LabelsIdle

NextSelect ==
    \/ \E prefix \in Prefixes, guids \in GetObjects({"point", "textdot"}) :
          mesh_select_vertices(prefix, guids)
    \/ \E prefix \in Prefixes, guids \in GetObjects({"curve", "textdot"}) :
          mesh_select_edges(prefix, guids)
    \/ \E prefix \in Prefixes, guids \in GetObjects({"textdot"}) :
          mesh_select_faces(prefix, guids)

SpecSelect == InitSelect /\ [][NextSelect]_vars

----------------------------------------------------------------------------
(* Claims about the attribute updates (SpecUpdate) *)

\* a call that reached the summary and the dialog
Called == pc = "done" /\ call.ret # "None"

\* the value the write-back stores for a returned string that is written
Resolved(x) == IF literal_eval(x).exc = "" THEN literal_eval(x).val ELSE PyStr(x)

\* the elements of the selection agree on a name (Python equality)
Agree(store, keys, name) ==
    \A j \in 2..Len(keys) : ~py_ne(store[keys[1]][name], store[keys[j]][name])

\* C1: a name whose returned value is '-' is not written: every selected
\* element holds for it the value it held before the call.
C1_MixedNeverWritten ==
    Called =>
        \A i \in 1..Len(call.returned) :
            call.returned[i] = "-" =>
                \A k \in Range(call.keys) :
                    StoreOf(call.fn)[k][call.names[i]] = call.pre[k][call.names[i]]

\* C1 witness: the selection disagrees on a name, the dialog returns '-' for
\* it and a value for another name, which is written.
C1_Witness ==
    /\ Called
    /\ \E i, j \in 1..Len(call.returned) :
          /\ call.returned[i] = "-"
          /\ ~Agree(call.pre, call.keys, call.names[i])
          /\ call.returned[j] # "-"
          /\ \A k \in Range(call.keys) : <<k, call.names[j]>> \in call.written

\* C2: the summary holds, per name, the first element's value when all other
\* selected elements have an equal value and '-' otherwise; a call that ends
\* after the summary (dialog cancelled) has changed no attribute.
C2_Summary ==
    Called =>
        /\ Len(call.values) = Len(call.names)
        /\ \A i \in 1..Len(call.names) :
              call.values[i] =
                  IF Agree(call.pre, call.keys, call.names[i])
                  THEN call.pre[call.keys[1]][call.names[i]]
                  ELSE MIXED
        /\ call.returned = Cancelled =>
              /\ vertex = (IF call.fn = "vertex" THEN call.pre ELSE vertex)
              /\ edge = (IF call.fn = "edge" THEN call.pre ELSE edge)
              /\ facedata = (IF call.fn = "face" THEN call.pre ELSE facedata)

\* C2 witness: several elements selected; they differ on one name ('-') and
\* agree on another, an int 1 and a bool True counting as equal.
C2_Witness ==
    /\ Called
    /\ Len(call.keys) > 1
    /\ \E i, j \in 1..Len(call.names) :
          /\ call.values[i] = MIXED
          /\ ~Agree(call.pre, call.keys, call.names[i])
          /\ call.values[j] = PyInt(1)
          /\ \E k \in Range(call.keys) : call.pre[k][call.names[j]] = PyBool(TRUE)

\* C3 as stated: True is returned exactly when at least one attribute was
\* written, a false value when nothing was written.
C3_TrueIffWritten ==
    pc = "done" =>
        /\ call.ret = "True" <=> call.written # {}
        /\ call.written = {} => call.ret \in {"False", "None"}

\* C3 amended: True is returned exactly when the dialog returned values and
\* the write-back ran to its end, also when every value was '-' and nothing
\* was written; a false value (False, or None without face data) is returned
\* only when nothing was written.
C3_TrueIffDialogReturned ==
    pc = "done" =>
        /\ call.ret \in {"False", "None"} =>
              /\ call.written = {}
              /\ call.returned = Cancelled
              /\ StoreOf(call.fn) = call.pre
        /\ (/\ call.ret # "None"
            /\ call.returned # Cancelled
            /\ \A i \in 1..Len(call.returned) :
                  call.returned[i] = "-"
                  \/ literal_eval(call.returned[i]).exc \in {"", "ValueError"})
              => call.ret = "True"
        /\ call.ret = "True" => call.returned # Cancelled

\* C3 witness: the dialog returns '-' for every name: True, nothing written.
C3_Witness ==
    /\ Called
    /\ call.returned # Cancelled
    /\ \A i \in 1..Len(call.returned) : call.returned[i] = "-"
    /\ call.written = {}
    /\ call.ret = "True"

\* C4: a returned string that does not parse is never an error: the call
\* completes and every selected element holds the raw string.
C4_ParseFailureFallsBack ==
    (Called /\ call.returned # Cancelled) =>
        /\ call.ret = "True"
        /\ \A i \in 1..Len(call.returned) :
              (call.returned[i] # "-" /\ literal_eval(call.returned[i]).exc # "") =>
                  \A k \in Range(call.keys) :
                      StoreOf(call.fn)[k][call.names[i]] = PyStr(call.returned[i])

\* C5: after a call in which the dialog returned values, every selected
\* element holds, for each name whose returned value is not '-', the parsed
\* value when the string parses and the raw string otherwise.
C5_AppliedToAll ==
    (Called /\ call.returned # Cancelled) =>
        \A i \in 1..Len(call.returned) :
            call.returned[i] # "-" =>
                \A k \in Range(call.keys) :
                    StoreOf(call.fn)[k][call.names[i]] = Resolved(call.returned[i])

\* C6: with one element selected the summary holds that element's values
\* and never the MIXED sentinel '-'.
C6_SingleVerbatim ==
    (Called /\ Len(call.keys) = 1) =>
        \A i \in 1..Len(call.names) :
            /\ call.values[i] = call.pre[call.keys[1]][call.names[i]]
            /\ call.values[i] # MIXED
            /\ call.shown[i] # "-"

----------------------------------------------------------------------------
(* Claims about mesh_from_surface (SpecSurface) *)

\* a mesh was built and returned
Built == spc = "done" /\ mesh.kind = "mesh"

\* all points read, over all loops, in the order they were read
RECURSIVE PointsSeen(_)
PointsSeen(log) ==
    IF log = <<>> THEN <<>> ELSE Head(log).points \o PointsSeen(Tail(log))

\* the distinct keys of a sequence of points, in the order of their first
\* occurrence
RECURSIVE FirstSeenKeys(_)
FirstSeenKeys(pts) ==
    IF pts = <<>> THEN <<>>
    ELSE LET front == FirstSeenKeys(SubSeq(pts, 1, Len(pts) - 1))
             k == geometric_key(pts[Len(pts)])
         IN  IF k \in Range(front) THEN front ELSE Append(front, k)

FirstWithKey(pts, k) == pts[CHOOSE i \in 1..Len(pts) :
    /\ geometric_key(pts[i]) = k
    /\ \A j \in 1..(i - 1) : geometric_key(pts[j]) # k]

LastWithKey(pts, k) == pts[CHOOSE i \in 1..Len(pts) :
    /\ geometric_key(pts[i]) = k
    /\ \A j \in (i + 1)..Len(pts) : geometric_key(pts[j]) # k]

\* C7 as stated: one face per loop, and the face of a loop of n >= 1
\* segments has exactly n entries.
C7_FaceLengthIsSegmentCount ==
    Built =>
        /\ Len(mesh.faces) = Len(read)
        /\ \A l \in 1..Len(read) : Len(mesh.faces[l]) = read[l].n

\* C7 amended: one face per loop; the face of a loop of n >= 2 segments has
\* exactly n entries and the face of a loop of one segment has 2 (the start
\* and the end of that segment).
C7_FaceLength ==
    Built =>
        /\ Len(mesh.faces) = Len(read)
        /\ \A l \in 1..Len(read) :
              Len(mesh.faces[l]) = IF read[l].n = 1 THEN 2 ELSE read[l].n

\* C7 witness: a mesh built from a loop of one segment and a loop of three.
C7_Witness ==
    /\ Built
    /\ \E l, m \in 1..Len(read) :
          /\ read[l].n = 1 /\ Len(mesh.faces[l]) = 2
          /\ read[m].n = 3 /\ Len(mesh.faces[m]) = 3

\* C8 as stated: the vertex of a key has the index of the key's first
\* occurrence and the coordinates of the first point seen with that key.
C8_FirstPointKept ==
    Built =>
        LET pts == PointsSeen(read)
            order == FirstSeenKeys(pts)
        IN  /\ Len(mesh.vertices) = Len(order)
            /\ \A i \in 1..Len(order) :
                  mesh.vertices[i] = FirstWithKey(pts, order[i])

\* C8 amended: the first occurrence of a key fixes the vertex index
\* (first-seen order) and later occurrences reuse it, but each occurrence
\* replaces the stored point: the coordinates of the vertex are those of the
\* last point seen with that key.
C8_LastPointKept ==
    Built =>
        LET pts == PointsSeen(read)
            order == FirstSeenKeys(pts)
        IN  /\ Len(mesh.vertices) = Len(order)
            /\ \A i \in 1..Len(order) :
                  mesh.vertices[i] = LastWithKey(pts, order[i])

\* C8 witness: two different points with one key were read, and the vertex
\* holds the later one.
C8_Witness ==
    /\ Built
    /\ \E i \in 1..Len(mesh.vertices) :
          LET pts == PointsSeen(read)
              k == geometric_key(mesh.vertices[i])
          IN  /\ FirstWithKey(pts, k) # LastWithKey(pts, k)
              /\ mesh.vertices[i] = LastWithKey(pts, k)

\* C9: every key seen is in the vertex-index map exactly once: as many
\* vertices as distinct keys seen, distinct keys with distinct indices, and
\* a triangle of three contiguous segments with three distinct corners
\* gives 3 vertices and 1 face of length 3.
C9_KeysOnce ==
    Built =>
        LET seen == {geometric_key(p) : p \in Range(PointsSeen(read))}
        IN  /\ {gkey_xyz[i].gkey : i \in 1..Len(gkey_xyz)} = seen
            /\ \A i, j \in 1..Len(gkey_xyz) :
                  gkey_xyz[i].gkey = gkey_xyz[j].gkey => i = j
            /\ Len(mesh.vertices) = Cardinality(seen)
            /\ \A k \in seen :
                  \E i \in 0..(Len(mesh.vertices) - 1) : gkey_index(gkey_xyz, k) = i
            /\ \A k1, k2 \in seen :
                  gkey_index(gkey_xyz, k1) = gkey_index(gkey_xyz, k2) => k1 = k2
            /\ (/\ Len(read) = 1
                /\ read[1].n = 3
                /\ read[1].contiguous
                /\ Cardinality({geometric_key(p) : p \in Range(read[1].points)}) = 3)
                  => /\ Len(mesh.vertices) = 3
                     /\ Len(mesh.faces) = 1
                     /\ Len(mesh.faces[1]) = 3

\* C9 witness: one loop of three contiguous segments around three distinct
\* corners gives the vertices 0, 1, 2 and the face 0, 1, 2.
C9_Witness ==
    /\ Built
    /\ Len(read) = 1
    /\ read[1].n = 3
    /\ read[1].contiguous
    /\ Len(mesh.vertices) = 3
    /\ mesh.faces = << <<0, 1, 2>> >>

\* C10: faces hold only indices i with 0 <= i < len(vertices); the vertices
\* are in the order in which their keys were first encountered and each
\* face entry is the position of its point's key in that order, so that the
\* result is fixed by the points read and their order.
C10_IndicesAndOrder ==
    Built =>
        LET order == FirstSeenKeys(PointsSeen(read))
        IN  /\ \A f \in 1..Len(mesh.faces) : \A j \in 1..Len(mesh.faces[f]) :
                  mesh.faces[f][j] \in 0..(Len(mesh.vertices) - 1)
            /\ Len(mesh.vertices) = Len(order)
            /\ \A i \in 1..Len(order) : geometric_key(mesh.vertices[i]) = order[i]
            /\ \A f \in 1..Len(read) : \A j \in 1..Len(read[f].points) :
                  order[mesh.faces[f][j] + 1] = geometric_key(read[f].points[j])

\* C10 witness: two loops sharing a key; the second loop meets the shared
\* key after a new one, and the shared vertex keeps its earlier index.
C10_Witness ==
    /\ Built
    /\ Len(read) = 2
    /\ Len(mesh.vertices) = 3
    /\ mesh.faces[1] = <<0, 1>>
    /\ mesh.faces[2] = <<2, 1, 0>>
    /\ read[2].points[2] # read[1].points[2]

\* C11: every face handed to the mesh constructor by mesh_from_guid and by
\* mesh_from_surface has at least 3 vertex indices and its first and last
\* entries differ; in mesh_from_guid a host face whose last two indices are
\* equal loses exactly its last entry and every other face is unchanged.
C11_FacesWellFormed ==
    (spc = "done" /\ mesh.kind \in {"mesh", "from_guid"}) =>
        /\ \A f \in 1..Len(mesh.faces) :
              /\ Len(mesh.faces[f]) >= 3
              /\ mesh.faces[f][1] # mesh.faces[f][Len(mesh.faces[f])]
        /\ mesh.kind = "from_guid" =>
              /\ Len(mesh.faces) = Len(host_faces)
              /\ \A f \in 1..Len(host_faces) :
                    mesh.faces[f] =
                        IF host_faces[f][3] = host_faces[f][4]
                        THEN SubSeq(host_faces[f], 1, 3)
                        ELSE host_faces[f]

\* C12: when the segments of a loop are not contiguous mesh_from_surface
\* raises and returns no mesh: a mesh is built from contiguous loops only.
C12_NonContiguousRaises ==
    Built => \A l \in 1..Len(read) : read[l].contiguous

\* C13: for an object without a brep form mesh_from_surface returns None,
\* and does so before it converts the geometry, reads a loop or builds a
\* mesh.
C13_NoBrepReturnsNone ==
    (obj.found /\ ~obj.HasBrepForm) =>
        /\ spc = "done"
        /\ mesh = ReturnedNone
        /\ ~obj.converted
        /\ read = <<>>
        /\ faces = <<>>
        /\ gkey_xyz = <<>>

\* C13 witness: the object found has no brep form and None is returned.
C13_Witness ==
    /\ obj.found
    /\ ~obj.HasBrepForm
    /\ spc = "done"
    /\ mesh.kind = "None"

----------------------------------------------------------------------------
(* Claims about mesh_from_surface_heightfield (SpecGrid) *)

\* C14: for u >= 1, v >= 1 and u * v samples, exactly u * v vertices are
\* added, one per sample in sample order, and exactly (u - 1) * (v - 1) faces.
C14_GridCounts ==
    (hpc = "done" /\ grid.u >= 1 /\ grid.v >= 1 /\ Len(grid.samples) = grid.u * grid.v) =>
        /\ Len(grid.add_vertex) = grid.u * grid.v
        /\ \A k \in 1..Len(grid.samples) : grid.add_vertex[k] = grid.samples[k]
        /\ Len(grid.add_face) = (grid.u - 1) * (grid.v - 1)

\* C14 witness: a grid of 3 by 2 samples, 6 vertices and 2 faces.
C14_Witness ==
    /\ hpc = "done"
    /\ grid.u = 3 /\ grid.v = 2
    /\ Len(grid.add_vertex) = 6
    /\ Len(grid.add_face) = 2
    /\ \E k \in 1..6 : grid.samples[k][3] = 1

\* C15: for every row i in 0..u-2 and column j in 0..v-2 exactly one face is
\* added, with the indices i*v+j, i*v+j+1, (i+1)*v+j+1, (i+1)*v+j in this
\* order; no other face is added and every index is in 0..u*v-1.
C15_Quads ==
    hpc = "done" =>
        LET u == grid.u
            v == grid.v
            Quad(i, j) == <<i * v + j, i * v + j + 1, (i + 1) * v + j + 1, (i + 1) * v + j>>
        IN  /\ \A i \in 0..(u - 2), j \in 0..(v - 2) :
                  Cardinality({k \in 1..Len(grid.add_face) :
                                  grid.add_face[k] = Quad(i, j)}) = 1
            /\ \A k \in 1..Len(grid.add_face) :
                  /\ \E i \in 0..(u - 2), j \in 0..(v - 2) : grid.add_face[k] = Quad(i, j)
                  /\ \A c \in 1..4 : grid.add_face[k][c] \in 0..(u * v - 1)

\* C15 witness: 2 by 3 samples: the second face is the quad of row 0 and
\* column 1, over the vertices 1, 2, 5, 4.
C15_Witness ==
    /\ hpc = "done"
    /\ grid.u = 2 /\ grid.v = 3
    /\ grid.add_face = << <<0, 1, 4, 3>>, <<1, 2, 5, 4>> >>

\* C16: with u < 1 or v < 1 no vertex and no face is added; with u = 1 or
\* v = 1 (both at least 1) the sampled vertices are added and no face.
C16_Degenerate ==
    hpc = "done" =>
        /\ (grid.u < 1 \/ grid.v < 1) =>
              grid.add_vertex = <<>> /\ grid.add_face = <<>>
        /\ (grid.u >= 1 /\ grid.v >= 1 /\ (grid.u = 1 \/ grid.v = 1)) =>
              /\ grid.add_vertex = grid.samples
              /\ Len(grid.add_vertex) = grid.u * grid.v
              /\ grid.add_face = <<>>

\* C16 witness: 3 samples in one column, 3 vertices and no face.
C16_Witness ==
    /\ hpc = "done"
    /\ grid.u = 3 /\ grid.v = 1
    /\ Len(grid.add_vertex) = 3
    /\ grid.add_face = <<>>

----------------------------------------------------------------------------
(* Claims about the label display (SpecLabels) *)

\* C17: a formatter that is given but not callable makes the three display
\* functions raise before any drawing: no xdraw_labels call has been made and
\* the objects of the scene are those on entry.
C17_RaisesBeforeDrawing ==
    (lpc = "done" /\ display.formatter # None /\ ~display.formatter.callable) =>
        /\ display.raised = "Exception"
        /\ display.xdraw = <<>>
        /\ scene = display.entry

----------------------------------------------------------------------------
(* Further claims about the attribute updates (SpecUpdate) *)

\* a call of one of the four update functions has ended
Ended == pc \in {"done", "done_mesh"}

\* C18: each of the four update functions returns True or False and never
\* None (a call may also end with an exception); when the dialog is
\* cancelled it returns False and no attribute of the mesh or of an element
\* is changed.
C18_ReturnsBool ==
    Ended =>
        /\ call.ret # "None"
        /\ (call.ret \in {"True", "False"} /\ call.returned = Cancelled) =>
              /\ call.ret = "False"
              /\ call.written = {}
              /\ call.fn = "mesh" => <<attributes>> = call.pre
              /\ call.fn # "mesh" => StoreOf(call.fn) = call.pre

\* C19: when the dialog of the vertex, edge or face function returns exactly
\* the strings it was shown, every attribute of every selected element has
\* after the call the value, and the type, it had before.
C19_UneditedRoundTrip ==
    (Called /\ call.returned # Cancelled /\ call.returned = call.shown) =>
        \A k \in Range(call.keys), a \in Names :
            StoreOf(call.fn)[k][a] = call.pre[k][a]

\* C20: when the call raises while writing the returned values back, no
\* attribute of a selected element has been modified by the call.
C20_AllOrNothing ==
    (Called /\ call.ret \notin {"True", "False"}) =>
        /\ call.written = {}
        /\ StoreOf(call.fn) = call.pre

----------------------------------------------------------------------------
(* Claims about the selection (SpecSelect) *)

\* C21: mesh_select_vertices, mesh_select_edges and mesh_select_faces
\* return each selected key at most once, also when several selected
\* objects carry the same element name: the list returned has no duplicates.
C21_KeysReturnedOnce ==
    (qpc = "done" /\ select.exc = "") =>
        \A i, j \in 1..Len(select.keys) :
            select.keys[i] = select.keys[j] => i = j

====
